---- MODULE Spec2Model ----
(***************************************************************************)
(* A model of perceiver/data/text/common.py: the chunking stage of the     *)
(* preprocessing pipeline, the wrapper datasets (RandomShiftDataset,       *)
(* CLMDataset), the construction of a TextDataModule, its cache key, and   *)
(* prepare_data / setup over a shared cache directory.                     *)
(*                                                                         *)
(* Python lists are sequences (1-based here, 0-based in the source; every  *)
(* index that is visible in a property is kept 0-based as in the source).  *)
(***************************************************************************)
EXTENDS Integers, Sequences, FiniteSets, TLC

VARIABLES
    job,        \* the options of one preprocessing run over the train split
    tokenized,  \* the split after _tokenize_dataset: a list of examples
    cursor,     \* rows of the split that Dataset.map has handed to chunk
    call,       \* the last call of chunk: its arguments and what it returned
    chunks,     \* the rows Dataset.map has collected from chunk so far
    stage,      \* "chunking", "chunked" (map returned), "setup" (setup ran);
                \* "idle" when no split is being preprocessed
    ds_train,   \* the wrappers setup put around the split, innermost first
    item,       \* what the last __getitem__ on ds_train read and returned
    source,     \* the dataset load_source_dataset returns
    hparams,    \* per module: the constructor options (save_hyperparameters)
    pc,         \* per module: where its current call stands
    tokenizer,  \* per module: self.tokenizer
    collator,   \* per module: self.collator
    prepared,   \* per module: what setup loaded from preproc_dir
    disk,       \* the cache: preproc_dir -> the artifact saved there
    keys,       \* per module: the values preproc_dir_hash_input returned
    outcome,    \* per module: how its last prepare_data call ended
    log         \* per module: counts of what its prepare_data calls did

dataVars == <<job, tokenized, cursor, call, chunks, stage, ds_train, item>>

modVars == <<source, hparams, pc, tokenizer, collator, prepared, disk, keys,
             outcome, log>>

vars == <<dataVars, modVars>>

\* Before the first call of chunk, and before the first __getitem__.
NoCall == [args |-> <<>>, chunk_size |-> 0, ret |-> <<>>]

NoItem == [kind |-> "none"]

----------------------------------------------------------------------------
(* Bounds of the model.                                                    *)

MaxExamples == 3
MaxExampleLen == 3
MaxSeqLen == 3
NumProcs == 2
MaxCalls == 3

BatchSizes == {1, 2}

----------------------------------------------------------------------------
(* Python list operations.                                                 *)

Min(a, b) == IF a <= b THEN a ELSE b

Max(a, b) == IF a >= b THEN a ELSE b

\* t[i:j] for 0 <= i and 0 <= j: both ends are clamped to len(t).
PySlice(t, i, j) == SubSeq(t, i + 1, Min(j, Len(t)))

\* t[i:] for 0 <= i.
PySliceFrom(t, i) == SubSeq(t, i + 1, Len(t))

\* t[:-1]
PyDropLast(t) == SubSeq(t, 1, Len(t) - 1)

\* list(chain(*lists)): the lists of a column, concatenated in order.
RECURSIVE Chain(_)
Chain(lists) ==
    IF lists = <<>> THEN <<>> ELSE Head(lists) \o Chain(Tail(lists))

\* range(0, stop, step) as a list, step >= 1.
PyRange(stop, step) ==
    [n \in 1..((Max(stop, 0) + step - 1) \div step) |-> (n - 1) * step]

----------------------------------------------------------------------------
(* _chunk_dataset and its chunk function.                                  *)

\* The columns Dataset.map passes to chunk (input_columns=include_keys) for
\* the rows `rows` of the split: args[i] is the list of the values of column
\* include_keys[i].
Columns(rows, include_keys) ==
    [i \in 1..Len(include_keys) |->
        [r \in 1..Len(rows) |-> rows[r][include_keys[i]]]]

ChunkDropsShortBatch(args, chunk_size, include_keys) ==
    LET chained == [i \in 1..Len(include_keys) |-> Chain(args[i])]
        chained_len == (Len(chained[1]) \div chunk_size) * chunk_size
    IN  [i \in 1..Len(include_keys) |->
            [n \in 1..Len(PyRange(chained_len, chunk_size)) |->
                PySlice(chained[i], PyRange(chained_len, chunk_size)[n],
                        PyRange(chained_len, chunk_size)[n] + chunk_size)]]

ChunkLosesLastChunk(args, chunk_size, include_keys) ==
    LET chained == [i \in 1..Len(include_keys) |-> Chain(args[i])]
        len0 == Len(chained[1])
        chained_len == IF len0 >= chunk_size
                       THEN (len0 \div chunk_size) * chunk_size
                       ELSE len0
        starts == PyRange(chained_len - chunk_size, chunk_size)
    IN  [i \in 1..Len(include_keys) |->
            [n \in 1..Len(starts) |->
                PySlice(chained[i], starts[n], starts[n] + chunk_size)]]

\* chunk(*args): the value returned for key include_keys[i] is ret[i].
chunk(args, chunk_size, include_keys) ==
    LET chained == [i \in 1..Len(include_keys) |-> Chain(args[i])]
        len0 == Len(chained[1])
        chained_len == IF len0 >= chunk_size
                       THEN (len0 \div chunk_size) * chunk_size
                       ELSE len0
        starts == PyRange(chained_len, chunk_size)
    IN  [i \in 1..Len(include_keys) |->
            [n \in 1..Len(starts) |->
                PySlice(chained[i], starts[n], starts[n] + chunk_size)]]

\* The rows Dataset.map makes of what chunk returned: row n holds, for every
\* key, the n-th list of that key.
Rows(ret, include_keys) ==
    [n \in 1..Len(ret[1]) |->
        [k \in {include_keys[i] : i \in 1..Len(include_keys)} |->
            ret[CHOOSE i \in 1..Len(include_keys) : include_keys[i] = k][n]]]

\* The chunk size and the keys _prepare_dataset passes to _chunk_dataset.
ChunkSizeOf(task, max_seq_len) ==
    IF task = "clm" THEN max_seq_len + 1 ELSE max_seq_len

IncludeKeysOf(task) ==
    IF task = "clm" THEN <<"input_ids">> ELSE <<"input_ids", "word_ids">>

\* Dataset.map(chunk, batched=True, batch_size=...) over a whole split, as a
\* function: the rows of every batch's chunks, in order (one process:
\* num_proc, which splits the rows into shards first, is not modelled).
RECURSIVE chunk_dataset(_, _, _, _)
chunk_dataset(rows, chunk_size, include_keys, batch_size) ==
    IF rows = <<>> THEN <<>>
    ELSE LET n == Min(batch_size, Len(rows))
         IN  Rows(chunk(Columns(SubSeq(rows, 1, n), include_keys),
                        chunk_size, include_keys), include_keys)
             \o chunk_dataset(SubSeq(rows, n + 1, Len(rows)), chunk_size,
                              include_keys, batch_size)

----------------------------------------------------------------------------
(* The tokenized split: example e has `len` tokens; token ids are unique   *)
(* over the split and word ids count two tokens to a word, so a misplaced  *)
(* or repeated element is visible.                                         *)

TokenizedExample(e, len, task) ==
    [k \in {IncludeKeysOf(task)[i] : i \in 1..Len(IncludeKeysOf(task))} |->
        IF k = "input_ids"
        THEN [j \in 1..len |-> 10 * e + j]
        ELSE [j \in 1..len |-> (j - 1) \div 2]]

TokenizedSplits(task) ==
    UNION {
        {[e \in 1..n |-> TokenizedExample(e, lens[e], task)] :
            lens \in [1..n -> 0..MaxExampleLen]} : n \in 0..MaxExamples}

----------------------------------------------------------------------------
(* The wrapper datasets.                                                   *)

\* A shift drawn anew for every key: only the first key is cut at `shift`.
RandomShiftPerKey(example_1, example_2, shift) ==
    [key \in DOMAIN example_1 |->
        IF key = "input_ids"
        THEN PySliceFrom(example_1[key], shift)
                 \o PySlice(example_2[key], 0, shift)
        ELSE example_1[key]]

\* RandomShiftDataset.__getitem__ for the shift drawn.
RandomShiftGetItem(example_1, example_2, shift) ==
    [key \in DOMAIN example_1 |->
        PySliceFrom(example_1[key], shift) \o PySlice(example_2[key], 0, shift)]

\* The shifts torch.randint(len(record_1), (1,)) can draw; record_1 is the
\* record of the first key, input_ids. Empty when the record is empty: the
\* draw raises.
Shifts(example_1) == 0..(Len(example_1["input_ids"]) - 1)

\* Labels that are not shifted against the inputs.
CLMGetItemUnshifted(example) ==
    [k \in {"input_ids", "label_ids"} |-> PyDropLast(example["input_ids"])]

\* CLMDataset.__getitem__ on the example the wrapped dataset returned.
CLMGetItem(example) ==
    [k \in {"input_ids", "label_ids"} |->
        IF k = "input_ids"
        THEN PyDropLast(example["input_ids"])
        ELSE PySliceFrom(example["input_ids"], 1)]

\* __len__ of the dataset under the wrappers ws (innermost first).
RECURSIVE DatasetLen(_, _)
DatasetLen(ws, n) ==
    IF ws = <<>> THEN n
    ELSE LET inner == DatasetLen(SubSeq(ws, 1, Len(ws) - 1), n)
         IN  IF ws[Len(ws)] = "RandomShiftDataset" THEN inner - 1 ELSE inner

\* The wrappers setup puts around the train split.
Wrappers(task, random_train_shift) ==
    (IF task \in {"clm", "mlm"} /\ random_train_shift
     THEN <<"RandomShiftDataset">> ELSE <<>>)
    \o (IF task = "clm" THEN <<"CLMDataset">> ELSE <<>>)

----------------------------------------------------------------------------
(* TextDataModule: options, construction, cache key.                       *)

Tasks == {"mlm", "clm", "clf"}

\* None for an optional option; a value v is <<v>>.
NoValue == <<>>

\* The constructor's defaults (tokenizer and max_seq_len have none: a
\* tokenizer name and the length of the test scenario). mask_prob is in
\* hundredths. source_train_size and source_valid_size are options of the
\* subclasses that split their source, read with hparams.get. Options that
\* none of __init__'s check, the collator selection, the cache key and
\* _prepare_dataset read differently from num_workers are left out:
\* dataset_dir, padding_side, random_train_truncation,
\* random_valid_truncation, random_min_seq_len, preproc_workers.
Defaults ==
    [tokenizer |-> "bert-base-uncased", max_seq_len |-> 4, task |-> "mlm",
     mask_prob |-> 15, mask_words |-> TRUE, static_masking |-> FALSE,
     add_special_tokens |-> FALSE, add_eos_token |-> FALSE,
     random_train_shift |-> FALSE, random_valid_shift |-> FALSE,
     preproc_batch_size |-> 1000, batch_size |-> 64,
     valid_batch_size |-> NoValue, num_workers |-> 3, pin_memory |-> TRUE,
     source_train_size |-> NoValue, source_valid_size |-> NoValue]

\* The values an option takes in the model.
OptionValues ==
    [tokenizer |-> {"bert-base-uncased", "xlnet-base-cased"},
     max_seq_len |-> {4, 2}, task |-> Tasks,
     mask_prob |-> {15, 20}, mask_words |-> BOOLEAN,
     static_masking |-> BOOLEAN,
     add_special_tokens |-> BOOLEAN, add_eos_token |-> BOOLEAN,
     random_train_shift |-> BOOLEAN, random_valid_shift |-> BOOLEAN,
     preproc_batch_size |-> {1000, 1}, batch_size |-> {64, 8},
     valid_batch_size |-> {NoValue, <<16>>}, num_workers |-> {3, 0},
     pin_memory |-> BOOLEAN,
     source_train_size |-> {NoValue, <<2>>},
     source_valid_size |-> {NoValue, <<1>>}]

Options == DOMAIN Defaults

MaskOptions == {"mask_prob", "mask_words", "static_masking"}

\* The options in which two configurations differ.
Differ(c, d) == {o \in Options : c[o] # d[o]}

\* str(bool)
PyBoolStr(b) == IF b THEN "True" ELSE "False"

PyDigit(d) ==
    CASE d = 0 -> "0" [] d = 1 -> "1" [] d = 2 -> "2" [] d = 3 -> "3"
      [] d = 4 -> "4" [] d = 5 -> "5" [] d = 6 -> "6" [] d = 7 -> "7"
      [] d = 8 -> "8" [] d = 9 -> "9"

\* str(int) for n >= 0
RECURSIVE PyIntStr(_)
PyIntStr(n) ==
    IF n < 10 THEN PyDigit(n) ELSE PyIntStr(n \div 10) \o PyDigit(n % 10)

\* str(float) for h hundredths, 0 <= h: 15 is 0.15, 20 is 0.2, 100 is 1.0.
PyFloatStr(h) ==
    PyIntStr(h \div 100) \o "."
        \o (IF h % 10 = 0 THEN PyDigit((h % 100) \div 10)
            ELSE PyDigit((h % 100) \div 10) \o PyDigit(h % 10))

\* The random_shift property.
random_shift(c) == c.random_train_shift \/ c.random_valid_shift

\* preproc_dir_hash_input for the options c.
HashInput(c) ==
    LET h0 == c.tokenizer \o "-" \o PyIntStr(c.max_seq_len) \o "-" \o c.task
                  \o "-" \o PyBoolStr(random_shift(c))
        h1 == IF c.task = "mlm" /\ c.static_masking
              THEN h0 \o "-" \o PyBoolStr(c.mask_words)
                      \o "-" \o PyFloatStr(c.mask_prob)
              ELSE h0
        h2 == IF c.add_special_tokens THEN h1 \o "-st" ELSE h1
        h3 == IF c.add_eos_token THEN h2 \o "-eos" ELSE h2
        h4 == IF c.source_train_size # NoValue
              THEN h3 \o "-ts-" \o PyIntStr(c.source_train_size[1])
              ELSE h3
        h5 == IF c.source_valid_size # NoValue
              THEN h4 \o "-vs-" \o PyIntStr(c.source_valid_size[1])
              ELSE h4
    IN  h5

\* A key that leaves the masking probability out.
HashInputWithoutMaskProb(i) ==
    HashInput([hparams[i] EXCEPT !.mask_prob = 0])

\* self.preproc_dir_hash_input() of module i.
preproc_dir_hash_input(i) == HashInput(hparams[i])

\* self.preproc_dir of module i: the directory named by the MD5 digest of
\* the hash input under dataset_dir/preproc. The digest is kept symbolic;
\* distinct inputs are taken to have distinct digests.
preproc_dir(i) == <<"preproc", "md5", preproc_dir_hash_input(i)>>

\* The collator __init__ selects.
CollatorOf(c) ==
    IF c.task = "mlm" /\ ~c.static_masking
    THEN IF c.mask_words THEN "WordMaskingCollator"
         ELSE "TokenMaskingCollator"
    ELSE "DefaultCollator"

----------------------------------------------------------------------------
(* _prepare_dataset over the source dataset, with a whitespace tokenizer:  *)
(* a text is a list of words, each word one token.                         *)

SourceTexts == <<<<1, 2, 3>>, <<4, 5, 6, 7>>>>

SourceLabels == <<0, 1>>

\* Token ids of special tokens; a tokenizer's vocabulary starts at its base.
CLS == 101
SEP == 102
EOS == 103

VocabBase(tok) == IF tok = "bert-base-uncased" THEN 1000 ELSE 2000

\* tokenize of _tokenize_dataset for one text: input_ids, and word_ids (-1
\* for a special token) when asked for.
Tokenize(c, text, truncation, return_word_ids) ==
    LET eos == IF c.add_eos_token THEN <<EOS>> ELSE <<>>
        words == [w \in 1..Len(text) |-> VocabBase(c.tokenizer) + text[w]]
                     \o eos
        ids == IF c.add_special_tokens THEN <<CLS>> \o words \o <<SEP>>
               ELSE words
        wids == IF c.add_special_tokens
                THEN <<-1>> \o [w \in 1..Len(words) |-> w - 1] \o <<-1>>
                ELSE [w \in 1..Len(words) |-> w - 1]
        cut == IF truncation THEN c.max_seq_len ELSE Len(ids)
    IN  [k \in (IF return_word_ids THEN {"input_ids", "word_ids"}
                ELSE {"input_ids"}) |->
            IF k = "input_ids" THEN PySlice(ids, 0, cut)
            ELSE PySlice(wids, 0, cut)]

tokenize_dataset(c, texts, truncation, return_word_ids) ==
    [e \in 1..Len(texts) |-> Tokenize(c, texts[e], truncation, return_word_ids)]

\* _prepare_dataset on the train split of a source that has its label
\* column. Static masking is random: the artifact records that the rows were
\* masked and with which probability (_mask_dataset reads mask_prob only).
prepare_dataset(c) ==
    CASE c.task = "clm" ->
            [rows |-> chunk_dataset(
                          tokenize_dataset(c, SourceTexts, FALSE, FALSE),
                          ChunkSizeOf("clm", c.max_seq_len),
                          IncludeKeysOf("clm"), c.preproc_batch_size),
             labels |-> <<>>, masked |-> NoValue]
      [] c.task = "mlm" ->
            [rows |-> chunk_dataset(
                          tokenize_dataset(c, SourceTexts, FALSE, TRUE),
                          ChunkSizeOf("mlm", c.max_seq_len),
                          IncludeKeysOf("mlm"), c.preproc_batch_size),
             labels |-> <<>>,
             masked |-> IF c.static_masking THEN <<c.mask_prob>> ELSE NoValue]
      [] c.task = "clf" ->
            [rows |-> tokenize_dataset(c, SourceTexts, TRUE, FALSE),
             labels |-> SourceLabels, masked |-> NoValue]

----------------------------------------------------------------------------
(* Modules: construction, prepare_data, setup.                             *)

Modules == DOMAIN pc

RECURSIVE SumOf(_, _)
SumOf(f, S) ==
    IF S = {} THEN 0
    ELSE LET x == CHOOSE y \in S : TRUE IN f[x] + SumOf(f, S \ {x})

\* The prepare_data calls made so far, over all modules; the model follows
\* the first MaxCalls of them.
CallsMade == SumOf([i \in Modules |-> log[i].calls], Modules)

NoLog == [calls |-> 0, absent |-> 0, loads |-> 0, saves |-> 0,
          raced |-> FALSE]

\* No module exists.
NoModules ==
    /\ source = [has_label |-> TRUE]
    /\ hparams = <<>>
    /\ pc = <<>>
    /\ tokenizer = <<>>
    /\ collator = <<>>
    /\ prepared = <<>>
    /\ disk = <<>>
    /\ keys = <<>>
    /\ outcome = <<>>
    /\ log = <<>>

\* No preprocessing run of the other specification is under way.
NoData ==
    /\ job = [task |-> "mlm", max_seq_len |-> 1, preproc_batch_size |-> 1,
              random_train_shift |-> FALSE]
    /\ tokenized = <<>>
    /\ cursor = 0
    /\ call = NoCall
    /\ chunks = <<>>
    /\ stage = "idle"
    /\ ds_train = <<>>
    /\ item = NoItem

\* The check made only for the mlm task.
InitCheckMlmOnly(i) ==
    /\ pc[i] = "__init__"
    /\ pc' = [pc EXCEPT ![i] =
                 IF /\ hparams[i].task = "mlm"
                    /\ hparams[i].static_masking /\ ~hparams[i].mask_words
                 THEN "ValueError" ELSE "init_tokenizer"]
    /\ UNCHANGED <<source, hparams, tokenizer, collator, prepared, disk,
                   keys, outcome, log>>
    /\ UNCHANGED dataVars

\* __init__, lines 108-112: the options are saved, then checked.
InitCheck(i) ==
    /\ pc[i] = "__init__"
    /\ pc' = [pc EXCEPT ![i] =
                 IF hparams[i].static_masking /\ ~hparams[i].mask_words
                 THEN "ValueError" ELSE "init_tokenizer"]
    /\ UNCHANGED <<source, hparams, tokenizer, collator, prepared, disk,
                   keys, outcome, log>>
    /\ UNCHANGED dataVars

\* __init__, lines 114-125: the tokenizer is loaded.
InitTokenizer(i) ==
    /\ pc[i] = "init_tokenizer"
    /\ tokenizer' = [tokenizer EXCEPT ![i] = hparams[i].tokenizer]
    /\ pc' = [pc EXCEPT ![i] = "init_collator"]
    /\ UNCHANGED <<source, hparams, collator, prepared, disk, keys, outcome,
                   log>>
    /\ UNCHANGED dataVars

\* __init__, lines 127-136: the collator is chosen.
InitCollator(i) ==
    /\ pc[i] = "init_collator"
    /\ collator' = [collator EXCEPT ![i] = CollatorOf(hparams[i])]
    /\ pc' = [pc EXCEPT ![i] = "ready"]
    /\ UNCHANGED <<source, hparams, tokenizer, prepared, disk, keys, outcome,
                   log>>
    /\ UNCHANGED dataVars

\* A call of preproc_dir_hash_input from outside.
CallHashInput(i) ==
    /\ pc[i] = "ready"
    /\ keys' = [keys EXCEPT ![i] = @ \cup {preproc_dir_hash_input(i)}]
    /\ UNCHANGED <<source, hparams, pc, tokenizer, collator, prepared, disk,
                   outcome, log>>
    /\ UNCHANGED dataVars

InFlight(j) == pc[j] \in {"load", "prepare", "save"}

\* prepare_data without its presence check: every call loads and writes.
PrepareDataNoCheck(i) ==
    /\ pc[i] = "ready"
    /\ CallsMade < MaxCalls
    /\ keys' = [keys EXCEPT ![i] = @ \cup {preproc_dir_hash_input(i)}]
    /\ pc' = [pc EXCEPT ![i] = "load"]
    /\ log' = [log EXCEPT
           ![i].calls = @ + 1,
           ![i].absent = IF preproc_dir(i) \in DOMAIN disk THEN @ ELSE @ + 1,
           ![i].raced = @ \/ \E j \in Modules \ {i} :
                        /\ InFlight(j)
                        /\ preproc_dir(j) = preproc_dir(i)]
    /\ outcome' = outcome
    /\ UNCHANGED <<source, hparams, tokenizer, collator, prepared, disk>>
    /\ UNCHANGED dataVars

\* prepare_data, line 185: the presence check.
PrepareDataCheck(i) ==
    /\ pc[i] = "ready"
    /\ CallsMade < MaxCalls
    /\ keys' = [keys EXCEPT ![i] = @ \cup {preproc_dir_hash_input(i)}]
    /\ IF preproc_dir(i) \in DOMAIN disk
       THEN /\ outcome' = [outcome EXCEPT ![i] = "skipped"]
            /\ log' = [log EXCEPT ![i].calls = @ + 1]
            /\ pc' = pc
       ELSE /\ pc' = [pc EXCEPT ![i] = "load"]
            /\ log' = [log EXCEPT
                   ![i].calls = @ + 1,
                   ![i].absent = @ + 1,
                   ![i].raced = @ \/ \E j \in Modules \ {i} :
                                /\ InFlight(j)
                                /\ preproc_dir(j) = preproc_dir(i)]
            /\ outcome' = outcome
    /\ UNCHANGED <<source, hparams, tokenizer, collator, prepared, disk>>
    /\ UNCHANGED dataVars

\* prepare_data, line 186: load_source_dataset returns, or raises.
LoadSourceDataset(i) ==
    /\ pc[i] = "load"
    /\ \/ /\ pc' = [pc EXCEPT ![i] = "prepare"]
          /\ log' = [log EXCEPT ![i].loads = @ + 1]
          /\ outcome' = outcome
       \/ /\ pc' = [pc EXCEPT ![i] = "ready"]
          /\ outcome' = [outcome EXCEPT ![i] = "raised"]
          /\ log' = log
    /\ UNCHANGED <<source, hparams, tokenizer, collator, prepared, disk,
                   keys>>
    /\ UNCHANGED dataVars

\* A _prepare_dataset that writes what it has to preproc_dir as it goes, so
\* that a run that raises leaves a partial artifact.
PrepareDatasetSavesPartial(i) ==
    /\ pc[i] = "prepare"
    /\ \/ /\ hparams[i].task = "clf" => source.has_label
          /\ pc' = [pc EXCEPT ![i] = "save"]
          /\ outcome' = outcome
          /\ disk' = disk
       \/ /\ pc' = [pc EXCEPT ![i] = "ready"]
          /\ outcome' = [outcome EXCEPT ![i] = "raised"]
          /\ disk' = [d \in DOMAIN disk \cup {preproc_dir(i)} |->
                        IF d = preproc_dir(i)
                        THEN [rows |-> <<>>, labels |-> <<>>,
                              masked |-> NoValue]
                        ELSE disk[d]]
    /\ UNCHANGED <<source, hparams, tokenizer, collator, prepared, keys, log>>
    /\ UNCHANGED dataVars

\* prepare_data, line 187: _prepare_dataset returns, or raises: the label
\* assertion of the clf task, or an error of tokenize, chunk or mask.
PrepareDataset(i) ==
    /\ pc[i] = "prepare"
    /\ \/ /\ hparams[i].task = "clf" => source.has_label
          /\ pc' = [pc EXCEPT ![i] = "save"]
          /\ outcome' = outcome
       \/ /\ pc' = [pc EXCEPT ![i] = "ready"]
          /\ outcome' = [outcome EXCEPT ![i] = "raised"]
    /\ UNCHANGED <<source, hparams, tokenizer, collator, prepared, disk,
                   keys, log>>
    /\ UNCHANGED dataVars

\* prepare_data, line 188: save_to_disk(self.preproc_dir).
SaveToDisk(i) ==
    /\ pc[i] = "save"
    /\ keys' = [keys EXCEPT ![i] = @ \cup {preproc_dir_hash_input(i)}]
    /\ disk' = [d \in DOMAIN disk \cup {preproc_dir(i)} |->
                  IF d = preproc_dir(i) THEN prepare_dataset(hparams[i])
                  ELSE disk[d]]
    /\ log' = [log EXCEPT ![i].saves = @ + 1]
    /\ outcome' = [outcome EXCEPT ![i] = "saved"]
    /\ pc' = [pc EXCEPT ![i] = "ready"]
    /\ UNCHANGED <<source, hparams, tokenizer, collator, prepared>>
    /\ UNCHANGED dataVars

\* setup, lines 191-194: load_prepared_dataset reads preproc_dir; when the
\* directory is missing it raises and nothing is assigned.
Setup(i) ==
    /\ pc[i] = "ready"
    /\ keys' = [keys EXCEPT ![i] = @ \cup {preproc_dir_hash_input(i)}]
    /\ prepared' = IF preproc_dir(i) \in DOMAIN disk
                   THEN [prepared EXCEPT ![i] = <<disk[preproc_dir(i)]>>]
                   ELSE prepared
    /\ UNCHANGED <<source, hparams, pc, tokenizer, collator, disk, outcome,
                   log>>
    /\ UNCHANGED dataVars

\* The second configuration of a pair: the first with one option changed,
\* or with the masking options changed.
Variants(c) ==
    UNION {{[c EXCEPT ![o] = v] : v \in OptionValues[o]} : o \in Options}
    \cup {[c EXCEPT !.mask_prob = p, !.mask_words = w, !.static_masking = s] :
              p \in OptionValues.mask_prob, w \in BOOLEAN, s \in BOOLEAN}

ModuleInit ==
    /\ NoData
    /\ source = [has_label |-> TRUE]
    /\ \E c \in {[Defaults EXCEPT !.task = t, !.static_masking = s,
                                   !.mask_words = w] :
                      t \in Tasks, s \in BOOLEAN, w \in BOOLEAN} :
         \E d \in Variants(c) :
            hparams = <<c, d>>
    /\ pc = <<"__init__", "__init__">>
    /\ tokenizer = <<"unset", "unset">>
    /\ collator = <<"unset", "unset">>
    /\ prepared = <<NoValue, NoValue>>
    /\ disk = <<>>
    /\ keys = <<{}, {}>>
    /\ outcome = <<"none", "none">>
    /\ log = <<NoLog, NoLog>>

\* The two modules of a pair.
Pair == {1, 2}

ModuleNext ==
    \E i \in Pair :
        \/ InitCheck(i)
        \/ InitTokenizer(i)
        \/ InitCollator(i)
        \/ CallHashInput(i)
        \/ PrepareDataCheck(i)
        \/ LoadSourceDataset(i)
        \/ PrepareDataset(i)
        \/ SaveToDisk(i)
        \/ Setup(i)

SpecModule == ModuleInit /\ [][ModuleNext]_vars

\* NumProcs processes, each with a module constructed from the same options
\* (so all share one preproc_dir), over a source with or without a label
\* column.
PrepareInit ==
    /\ NoData
    /\ source \in [has_label : BOOLEAN]
    /\ \E t \in Tasks :
         hparams = [i \in 1..NumProcs |-> [Defaults EXCEPT !.task = t]]
    /\ pc = [i \in 1..NumProcs |-> "ready"]
    /\ tokenizer = [i \in 1..NumProcs |-> hparams[i].tokenizer]
    /\ collator = [i \in 1..NumProcs |-> CollatorOf(hparams[i])]
    /\ prepared = [i \in 1..NumProcs |-> NoValue]
    /\ disk = <<>>
    /\ keys = [i \in 1..NumProcs |-> {}]
    /\ outcome = [i \in 1..NumProcs |-> "none"]
    /\ log = [i \in 1..NumProcs |-> NoLog]

PrepareNext ==
    \E i \in 1..NumProcs :
        \/ PrepareDataCheck(i)
        \/ LoadSourceDataset(i)
        \/ PrepareDataset(i)
        \/ SaveToDisk(i)
        \/ Setup(i)

SpecPrepare == PrepareInit /\ [][PrepareNext]_vars

----------------------------------------------------------------------------
(* Preprocessing of one split and fetching from it.                        *)

DataInit ==
    /\ job \in [task : {"mlm", "clm"},
                max_seq_len : 1..MaxSeqLen,
                preproc_batch_size : BatchSizes,
                random_train_shift : BOOLEAN]
    /\ tokenized \in TokenizedSplits(job.task)
    /\ cursor = 0
    /\ call = NoCall
    /\ chunks = <<>>
    /\ stage = "chunking"
    /\ ds_train = <<>>
    /\ item = NoItem
    /\ NoModules

\* Dataset.map hands the next preproc_batch_size rows to chunk and keeps the
\* rows it returns.
MapChunkBatch ==
    /\ stage = "chunking"
    /\ cursor < Len(tokenized)
    /\ LET n == Min(job.preproc_batch_size, Len(tokenized) - cursor)
           include_keys == IncludeKeysOf(job.task)
           size == ChunkSizeOf(job.task, job.max_seq_len)
           args == Columns(SubSeq(tokenized, cursor + 1, cursor + n),
                           include_keys)
           ret == chunk(args, size, include_keys)
       IN  /\ call' = [args |-> args, chunk_size |-> size, ret |-> ret]
           /\ chunks' = chunks \o Rows(ret, include_keys)
           /\ cursor' = cursor + n
    /\ UNCHANGED <<job, tokenized, stage, ds_train, item>>
    /\ UNCHANGED modVars

\* Dataset.map returns once every row has been handed over.
MapReturn ==
    /\ stage = "chunking"
    /\ cursor = Len(tokenized)
    /\ stage' = "chunked"
    /\ UNCHANGED <<job, tokenized, cursor, call, chunks, ds_train, item>>
    /\ UNCHANGED modVars

\* setup wraps the split.
SetupWrap ==
    /\ stage = "chunked"
    /\ stage' = "setup"
    /\ ds_train' = Wrappers(job.task, job.random_train_shift)
    /\ UNCHANGED <<job, tokenized, cursor, call, chunks, item>>
    /\ UNCHANGED modVars

HasWrapper(w) == \E i \in 1..Len(ds_train) : ds_train[i] = w

\* ds_train[idx] for an index a sampler draws, 0 <= idx < len(ds_train).
GetItem(idx) ==
    /\ stage = "setup"
    /\ idx \in 0..(DatasetLen(ds_train, Len(chunks)) - 1)
    /\ IF HasWrapper("RandomShiftDataset")
       THEN \/ \E shift \in Shifts(chunks[idx + 1]) :
                 LET under == RandomShiftGetItem(chunks[idx + 1],
                                                 chunks[idx + 2], shift)
                 IN  item' = [kind |-> "example", idx |-> idx,
                              reads |-> {idx, idx + 1},
                              shift |-> shift, under |-> under,
                              result |-> IF HasWrapper("CLMDataset")
                                         THEN CLMGetItem(under) ELSE under]
            \/ /\ Shifts(chunks[idx + 1]) = {}
               /\ item' = [kind |-> "RuntimeError", idx |-> idx,
                           reads |-> {idx, idx + 1}]
       ELSE item' = [kind |-> "example", idx |-> idx, reads |-> {idx},
                     shift |-> -1, under |-> chunks[idx + 1],
                     result |-> IF HasWrapper("CLMDataset")
                                THEN CLMGetItem(chunks[idx + 1])
                                ELSE chunks[idx + 1]]
    /\ UNCHANGED <<job, tokenized, cursor, call, chunks, stage, ds_train>>
    /\ UNCHANGED modVars

DataNext ==
    \/ MapChunkBatch
    \/ MapReturn
    \/ SetupWrap
    \/ \E idx \in 0..(MaxExamples * MaxExampleLen) : GetItem(idx)

SpecData == DataInit /\ [][DataNext]_vars

----------------------------------------------------------------------------
(* Properties of prepare_data (checked under SpecPrepare).                 *)

\* The modules whose preproc_dir is d.
Sharing(d) == {i \in Modules : preproc_dir(i) = d}

\* How often save_to_disk(d) and load_source_dataset were executed, and how
\* many presence checks found d absent, over the calls of all processes.
Writes(d) == SumOf([i \in Modules |-> log[i].saves], Sharing(d))

Loads(d) == SumOf([i \in Modules |-> log[i].loads], Sharing(d))

AbsentChecks(d) == SumOf([i \in Modules |-> log[i].absent], Sharing(d))

\* C4 as stated: over any interleaving of the prepare_data calls of
\* processes that share a cache key, the artifact at preproc_dir is written
\* exactly once: never twice, and once when it exists.
C4_WrittenExactlyOnce ==
    \A i \in Modules :
        /\ Writes(preproc_dir(i)) <= 1
        /\ preproc_dir(i) \in DOMAIN disk => Writes(preproc_dir(i)) = 1

\* C4 amended: a call loads the source and writes the artifact (at most
\* once each) only if its own presence check found the artifact absent, a
\* call that finds it present does neither, and the artifact exists exactly
\* when it has been written; it is written more than once only if a
\* presence check ran while another call that had found the artifact absent
\* was still between its check and its save_to_disk (overlapping calls).
C4_WrittenOncePerAbsentCheck ==
    \A i \in Modules :
        LET d == preproc_dir(i)
        IN  /\ log[i].saves <= log[i].loads
            /\ log[i].loads <= log[i].absent
            /\ log[i].absent <= log[i].calls
            /\ Writes(d) <= AbsentChecks(d)
            /\ d \in DOMAIN disk <=> Writes(d) >= 1
            /\ outcome[i] = "skipped" => d \in DOMAIN disk
            /\ Writes(d) >= 2 => \E j \in Sharing(d) : log[j].raced

\* One process wrote the artifact, another's call found it and returned,
\* and a second call of the writer found it too.
C4_Witness ==
    \E i, j \in Modules :
        /\ i # j
        /\ log[i].saves = 1
        /\ log[i].calls = 2
        /\ outcome[i] = "skipped"
        /\ outcome[j] = "skipped"
        /\ log[j].loads = 0
        /\ Writes(preproc_dir(i)) = 1

\* A step in which the prepare_data call of module i raises.
Raises(i) ==
    /\ pc[i] \in {"load", "prepare"}
    /\ pc'[i] = "ready"

\* A step in which module i starts a prepare_data call after a call of its
\* own that raised.
Retries(i) ==
    /\ pc[i] = "ready"
    /\ outcome[i] = "raised"
    /\ log'[i].calls = log[i].calls + 1

\* C5: a prepare_data run that fails in load_source_dataset or in
\* _prepare_dataset (the clf label assertion included, which always fails
\* the run when the label column is missing) writes nothing: the artifact
\* exists only once some run has executed save_to_disk; and a later call
\* that finds no artifact goes on to load and preprocess again.
C5_FailedRunLeavesNoArtifact ==
    /\ [](\A i \in Modules :
            Writes(preproc_dir(i)) = 0 => preproc_dir(i) \notin DOMAIN disk)
    /\ [][\A i \in Modules :
            /\ Raises(i) => (disk' = disk /\ outcome'[i] = "raised")
            /\ (/\ pc[i] = "prepare"
                /\ hparams[i].task = "clf"
                /\ ~source.has_label
                /\ pc'[i] # pc[i]) => Raises(i)
            /\ (Retries(i) /\ preproc_dir(i) \notin DOMAIN disk) =>
                   (pc'[i] = "load" /\ log'[i].absent = log[i].absent + 1)
          ]_vars

\* A second call of a module whose first call raised: nothing is on disk
\* and the call is about to load the source again.
C5_Witness ==
    \E i \in Modules :
        /\ outcome[i] = "raised"
        /\ log[i].calls = 2
        /\ log[i].loads = 1
        /\ pc[i] = "load"
        /\ disk = <<>>

----------------------------------------------------------------------------
(* Properties of construction and of the cache key (under SpecModule).     *)

Constructing(i) == pc[i] \in {"__init__", "init_tokenizer", "init_collator"}

AtMostOne(S) == \A x, y \in S : x = y

\* C2 as stated: two configurations over the same source whose options make
\* _prepare_dataset produce different datasets never get the same value
\* from preproc_dir_hash_input.
C2_DifferentDataDifferentKey ==
    \A i, j \in Modules :
        (/\ ~Constructing(i) /\ ~Constructing(j)
         /\ prepare_dataset(hparams[i]) # prepare_dataset(hparams[j])) =>
            keys[i] \cap keys[j] = {}

\* C3: every call of preproc_dir_hash_input on a module returns the same
\* key, whatever prepare_data and setup did in between, and two modules with
\* the same options get the same key; with task mlm and static masking, two
\* configurations that differ only in mask_prob get different keys; two
\* configurations that differ only in num_workers, only in batch_size, only
\* in valid_batch_size or only in pin_memory get the same key.
C3_KeyIsFunctionOfConfig ==
    \A i, j \in Modules :
        /\ AtMostOne(keys[i])
        /\ hparams[i] = hparams[j] => AtMostOne(keys[i] \cup keys[j])
        /\ (/\ hparams[i].task = "mlm"
            /\ hparams[i].static_masking
            /\ Differ(hparams[i], hparams[j]) = {"mask_prob"}) =>
               keys[i] \cap keys[j] = {}
        /\ (\E o \in {"num_workers", "batch_size", "valid_batch_size",
                       "pin_memory"} :
                Differ(hparams[i], hparams[j]) = {o}) =>
               AtMostOne(keys[i] \cup keys[j])

\* Two statically masked mlm modules that differ in mask_prob only, each
\* with a key taken before and after its own prepare_data and setup.
C3_Witness ==
    /\ hparams[1].task = "mlm"
    /\ hparams[1].static_masking
    /\ Differ(hparams[1], hparams[2]) = {"mask_prob"}
    /\ \A i \in Modules :
           /\ keys[i] # {}
           /\ log[i].saves = 1
           /\ prepared[i] # NoValue
    /\ Cardinality(DOMAIN disk) = 2

\* The options __init__ rejects.
Rejected(c) == c.static_masking /\ ~c.mask_words

C7_MaskOptionsIgnored ==
    \A i, j \in Modules :
        (/\ hparams[i].task \in {"clm", "clf"}
         /\ Differ(hparams[i], hparams[j]) \subseteq MaskOptions
         /\ ~Constructing(i) /\ ~Constructing(j)) =>
            /\ pc[i] = "ValueError" <=> pc[j] = "ValueError"
            /\ collator[i] = collator[j]
            /\ pc[i] # "ValueError" => collator[i] = "DefaultCollator"
            /\ AtMostOne(keys[i] \cup keys[j])
            /\ prepare_dataset(hparams[i]) = prepare_dataset(hparams[j])

----------------------------------------------------------------------------
(* Properties of chunk (checked under SpecData).                           *)

\* The concatenated input_ids of the last chunk call, and what it emitted.
CallChained == Chain(call.args[1])

CallEmitted == call.ret[1]

\* floor(L/C) chunks, each of C elements, that concatenate to the first
\* C*floor(L/C) elements of `chained`.
ExactChunks(emitted, chained, C) ==
    /\ Len(emitted) = Len(chained) \div C
    /\ \A n \in 1..Len(emitted) : Len(emitted[n]) = C
    /\ Chain(emitted) = SubSeq(chained, 1, C * (Len(chained) \div C))

\* C1 as stated: for every processing batch with concatenated input_ids of
\* length L >= 0 and chunk_size C >= 1, chunk emits floor(L/C) chunks of
\* exactly C elements each, which concatenate to the first C*floor(L/C)
\* elements of the concatenation.
C1_ChunkingExactness ==
    call # NoCall => ExactChunks(CallEmitted, CallChained, call.chunk_size)

\* C1 amended: the statement holds when L >= C or L = 0; a batch with
\* 0 < L < C is emitted whole, as one chunk of L elements.
C1_ChunkingExactnessAmended ==
    call # NoCall =>
        IF 0 < Len(CallChained) /\ Len(CallChained) < call.chunk_size
        THEN CallEmitted = <<CallChained>>
        ELSE ExactChunks(CallEmitted, CallChained, call.chunk_size)

\* A batch of 5 tokens chunked by 2: two chunks emitted, one token dropped.
C1_Witness ==
    /\ call # NoCall
    /\ call.chunk_size = 2
    /\ Len(CallChained) = 5
    /\ Len(call.args[1]) = 2
    /\ Len(CallEmitted) = 2

\* C10: with chunk_size = 1, for every chunked field the emitted chunks
\* concatenate to exactly the original concatenated sequence of the batch
\* (the empty one included).
C10_ChunkSizeOneRoundTrip ==
    (call # NoCall /\ call.chunk_size = 1) =>
        \A i \in DOMAIN call.args :
            /\ Chain(call.ret[i]) = Chain(call.args[i])
            /\ \A n \in 1..Len(call.ret[i]) : Len(call.ret[i][n]) = 1

\* Two examples, two fields, chunked by 1 into as many chunks as tokens.
C10_Witness ==
    /\ call # NoCall
    /\ call.chunk_size = 1
    /\ Len(call.args) = 2
    /\ Len(call.args[1]) = 2
    /\ Len(Chain(call.args[2])) >= 3
    /\ Len(call.ret[2]) = Len(Chain(call.args[2]))

----------------------------------------------------------------------------
(* Properties of the wrapper datasets (checked under SpecData).            *)

\* The wrappers under the outermost one.
InnerWrappers == SubSeq(ds_train, 1, Len(ds_train) - 1)

\* C8: when the example CLMDataset reads from the dataset it wraps has
\* input_ids of length max_seq_len + 1, the fetch returns input_ids and
\* label_ids of length max_seq_len each, label_ids[k] = input_ids[k+1] of
\* the example read for every 0 <= k < max_seq_len, and input_ids equal to
\* the example's without its last element; len(CLMDataset) is the length of
\* the wrapped dataset, and the split is still what the chunk stage made.
C8_CLMShift ==
    (stage = "setup" /\ HasWrapper("CLMDataset")) =>
        /\ DatasetLen(ds_train, Len(chunks))
               = DatasetLen(InnerWrappers, Len(chunks))
        /\ chunks = chunk_dataset(tokenized,
                                  ChunkSizeOf(job.task, job.max_seq_len),
                                  IncludeKeysOf(job.task),
                                  job.preproc_batch_size)
        /\ (/\ item.kind = "example"
            /\ Len(item.under["input_ids"]) = job.max_seq_len + 1) =>
               LET rec == item.under["input_ids"]
                   out == item.result
               IN  /\ DOMAIN out = {"input_ids", "label_ids"}
                   /\ Len(out["input_ids"]) = job.max_seq_len
                   /\ Len(out["label_ids"]) = job.max_seq_len
                   /\ \A k \in 0..(job.max_seq_len - 1) :
                          /\ out["label_ids"][k + 1] = rec[k + 2]
                          /\ out["input_ids"][k + 1] = rec[k + 1]

\* A fetch of a later chunk of max_seq_len + 1 = 3 tokens through CLMDataset.
C8_Witness ==
    /\ stage = "setup"
    /\ HasWrapper("CLMDataset")
    /\ item.kind = "example"
    /\ item.idx = 1
    /\ job.max_seq_len = 2
    /\ Len(item.under["input_ids"]) = 3
    /\ Len(item.result["label_ids"]) = 2

\* C9: len(RandomShiftDataset) is n - 1 for n wrapped examples; a fetch of
\* index i, 0 <= i < n - 1, reads exactly examples i and i + 1, both in
\* range, draws one shift s with 0 <= s < len(example_i), and returns for
\* every field k example_i[k][s:] followed by example_{i+1}[k][:s], with the
\* same s for every field; the wrapped examples are not modified.
C9_RandomShiftAlignment ==
    (stage = "setup" /\ HasWrapper("RandomShiftDataset")) =>
        /\ DatasetLen(<<"RandomShiftDataset">>, Len(chunks)) = Len(chunks) - 1
        /\ chunks = chunk_dataset(tokenized,
                                  ChunkSizeOf(job.task, job.max_seq_len),
                                  IncludeKeysOf(job.task),
                                  job.preproc_batch_size)
        /\ item.kind # "RuntimeError"
        /\ item.kind = "example" =>
            LET ex1 == chunks[item.idx + 1]
                ex2 == chunks[item.idx + 2]
                s == item.shift
            IN  /\ item.idx >= 0
                /\ item.idx < Len(chunks) - 1
                /\ item.reads = {item.idx, item.idx + 1}
                /\ item.reads \subseteq 0..(Len(chunks) - 1)
                /\ s \in 0..(Len(ex1["input_ids"]) - 1)
                /\ DOMAIN item.under = DOMAIN ex1
                /\ \A k \in DOMAIN ex1 :
                     LET kept == Len(ex1[k]) - s
                         taken == Min(s, Len(ex2[k]))
                     IN  /\ Len(item.under[k]) = kept + taken
                         /\ \A p \in 1..kept :
                                item.under[k][p] = ex1[k][s + p]
                         /\ \A p \in 1..taken :
                                item.under[k][kept + p] = ex2[k][p]

\* A fetch with a shift of 2 over chunks that carry input_ids and word_ids.
C9_Witness ==
    /\ stage = "setup"
    /\ ds_train = <<"RandomShiftDataset">>
    /\ item.kind = "example"
    /\ item.shift = 2
    /\ item.idx = 1
    /\ DOMAIN item.under = {"input_ids", "word_ids"}
    /\ Len(item.under["word_ids"]) = 3

====
